---- MODULE Spec2Model ----
(***************************************************************************)
(* Model of src/server.js: an express server with five endpoints over one *)
(* JSON file (books.json).  Every handler is an async function; it runs   *)
(* synchronously up to its next `await` of a file operation, so one       *)
(* action of the model is one file operation together with the            *)
(* synchronous code that follows it up to the next await or the response. *)
(*                                                                         *)
(* JavaScript values of the request body are modelled as tagged strings:  *)
(*   "undefined"            the field is absent from the body              *)
(*   "b:true", "b:false"    the booleans true and false                    *)
(*   "s:", "s:Dune", ...    strings ("s:" is the empty string)             *)
(* Record ids are integers.                                                *)
(***************************************************************************)
EXTENDS Integers, Sequences, FiniteSets, TLC

VARIABLES
    file,    \* books.json: whether it exists, and the array of books it holds
    disk,    \* state of the storage: "ok", or "down" (file operations fail)
    req,     \* req[r]: the activation of a handler serving a request
    issued,  \* number of requests received so far
    last,    \* the response sent most recently, with the request it answers
    created  \* the ids of the 201 responses, in the order they were sent

vars == <<file, disk, req, issued, last, created>>

----------------------------------------------------------------------------
(* Bounds of the model *)

\* number of requests the server receives in one behaviour when it serves
\* them concurrently (Spec)
MaxRequests == 3

\* number of requests the server receives in one behaviour when each is
\* issued after the response to the one before (SeqSpec)
MaxSeqRequests == 4

\* number of requests the server receives in one behaviour when every file
\* operation eventually settles (LiveSpec)
MaxLiveRequests == 2

\* the handler activations that can be in flight at the same time: two, the
\* races of the handlers being races of two requests on the one file
Slots == {"a", "b"}

----------------------------------------------------------------------------
(* JavaScript values *)

Undefined == "undefined"

Booleans == {"b:true", "b:false"}

\* values the body of a POST may carry for title / author / available
TitleValues == {Undefined, "s:", "s:Dune"}
AuthorValues == {Undefined, "s:", "s:Herbert"}
AvailableValues == {Undefined, "b:true", "b:false", "s:yes"}

\* values the body of a PUT may carry for title / author / available
PutTitleValues == {Undefined, "s:"}
PutAuthorValues == {Undefined, "s:Austen"}
PutAvailableValues == {Undefined, "b:false", "s:yes"}

\* the bodies of a PUT: besides the three fields its handler reads, a body may
\* carry an id ("n:9" is the number 9)
PutBodies ==
    [id : {Undefined, "n:9"}, title : PutTitleValues,
     author : PutAuthorValues, available : PutAvailableValues]

\* !v of JavaScript, on the values of the model
Falsy(v) == v \in {Undefined, "s:", "b:false"}

\* typeof v === 'boolean'
IsBoolean(v) == v \in Booleans

\* the :id path parameter, a string given as its sequence of characters
PathIds == {<<"1">>, <<"2">>, <<"x">>, <<"1", "2", "x">>}

DigitChars == {"0", "1", "2", "3", "4", "5", "6", "7", "8", "9"}

DigitVal(c) ==
    CASE c = "0" -> 0 [] c = "1" -> 1 [] c = "2" -> 2 [] c = "3" -> 3
      [] c = "4" -> 4 [] c = "5" -> 5 [] c = "6" -> 6 [] c = "7" -> 7
      [] c = "8" -> 8 [] c = "9" -> 9

\* number of leading decimal digits of s
RECURSIVE LeadingDigits(_)
LeadingDigits(s) ==
    IF s = <<>> \/ Head(s) \notin DigitChars THEN 0
    ELSE 1 + LeadingDigits(Tail(s))

RECURSIVE DecimalValue(_, _)
DecimalValue(s, n) ==
    IF n = 0 THEN 0
    ELSE 10 * DecimalValue(s, n - 1) + DigitVal(s[n])

\* parseInt(s): the integer written by the longest prefix of digits, NaN when
\* there is none.  A number is [nan |-> FALSE, n |-> k], NaN is [nan |-> TRUE].
ParseInt(s) ==
    IF LeadingDigits(s) = 0
    THEN [nan |-> TRUE, n |-> 0]
    ELSE [nan |-> FALSE, n |-> DecimalValue(s, LeadingDigits(s))]

IsNaN(x) == x.nan

----------------------------------------------------------------------------
(* The store *)

\* books.json does not exist (readFile fails with ENOENT)
Absent == [exists |-> FALSE, books |-> <<>>]

\* books.json holds the JSON text of `books`
Stored(books) == [exists |-> TRUE, books |-> books]

NoBook == [id |-> 0, title |-> Undefined, author |-> Undefined,
           available |-> Undefined]

Range(s) == {s[i] : i \in 1..Len(s)}

Ids(books) == [i \in 1..Len(books) |-> books[i].id]

RECURSIVE SetMax(_)
SetMax(S) ==
    LET x == CHOOSE y \in S : TRUE
    IN  IF S = {x} THEN x
        ELSE LET m == SetMax(S \ {x}) IN IF x > m THEN x ELSE m

\* the collection a load returns for the store file f
Collection(f) == f.books

----------------------------------------------------------------------------
(* Pure parts of the handlers *)

\* POST /books: the condition under which the body is rejected
InvalidBodyTruthyAvailable(title, author, available) ==
    Falsy(title) \/ Falsy(author) \/ Falsy(available)

InvalidBody(title, author, available) ==
    Falsy(title) \/ Falsy(author) \/ ~IsBoolean(available)

\* POST /books: the id given to the new book
NewIdByLength(books) == Len(books) + 1

NewIdWithoutIncrement(books) ==
    IF Len(books) > 0 THEN SetMax(Range(Ids(books))) ELSE 1

NewId(books) ==
    IF Len(books) > 0 THEN SetMax(Range(Ids(books))) + 1 ELSE 1

NewBook(id, title, author, available) ==
    [id |-> id, title |-> title, author |-> author, available |-> available]

\* books.push(newBook)
PushFront(books, newBook) == <<newBook>> \o books

Push(books, newBook) == Append(books, newBook)

\* books.findIndex(book => book.id === bookId), counting from 1; 0 is the -1
\* of JavaScript
FindIndexByPosition(books, bookId) ==
    IF bookId \in 1..Len(books) THEN bookId ELSE 0

FindIndex(books, bookId) ==
    IF \E i \in 1..Len(books) : books[i].id = bookId
    THEN CHOOSE i \in 1..Len(books) :
            /\ books[i].id = bookId
            /\ \A j \in 1..(i - 1) : books[j].id # bookId
    ELSE 0

\* PUT /books/:id: the three conditional assignments to books[bookIndex]
UpdateBookTruthyOnly(book, title, author, available) ==
    [book EXCEPT
        !.title = IF ~Falsy(title) THEN title ELSE @,
        !.author = IF ~Falsy(author) THEN author ELSE @,
        !.available = IF ~Falsy(available) THEN available ELSE @]

UpdateBookReplacing(book, title, author, available) ==
    [id |-> 0, title |-> title, author |-> author, available |-> available]

UpdateBook(book, title, author, available) ==
    [book EXCEPT
        !.title = IF title # Undefined THEN title ELSE @,
        !.author = IF author # Undefined THEN author ELSE @,
        !.available = IF available # Undefined THEN available ELSE @]

\* books.splice(bookIndex, 1): books without its element at bookIndex
SpliceFromIndex(books, bookIndex) == SubSeq(books, 1, bookIndex - 1)

Splice(books, bookIndex) ==
    SubSeq(books, 1, bookIndex - 1) \o SubSeq(books, bookIndex + 1, Len(books))

\* books.filter(book => book.available === true)
IsAvailableTruthy(book) == ~Falsy(book.available)

IsAvailable(book) == book.available = "b:true"

FilterAvailable(books) == SelectSeq(books, IsAvailable)

----------------------------------------------------------------------------
(* Requests *)

NaN == [nan |-> TRUE, n |-> 0]

NoId == <<>>

\* a handler activation: its position, the request (kind, id = req.params.id,
\* title / author / available = the fields of req.body), the locals of the
\* handler, and pre = the collection of the store when the request arrived
Idle ==
    [pc |-> "idle", kind |-> "none", id |-> NoId, bookId |-> NaN,
     title |-> Undefined, author |-> Undefined, available |-> Undefined,
     loaded |-> <<>>, books |-> <<>>, bookIndex |-> 0, book |-> NoBook,
     pre |-> <<>>]

\* a response (status, body), with the kind of the request it answers, the
\* position pc the handler sent it from, and pre = the collection of the store
\* when the request arrived
NoRequest ==
    [kind |-> "none", pc |-> "idle", status |-> 0, body |-> <<>>, pre |-> <<>>]

ErrorBody(msg) == [error |-> msg]

\* the message of the catch block of each handler
FailureMessage(kind) ==
    CASE kind = "list" -> "Failed to read books data"
      [] kind = "available" -> "Failed to read books data"
      [] kind = "post" -> "Failed to create book"
      [] kind = "put" -> "Failed to update book"
      [] kind = "delete" -> "Failed to delete book"

Init ==
    /\ file \in {Absent, Stored(<<>>)}
    /\ disk = "ok"
    /\ req = [r \in Slots |-> Idle]
    /\ issued = 0
    /\ last = NoRequest
    /\ created = <<>>

\* a handler can be entered for a new request
CanStart(r) == req[r].pc = "idle"

\* the handler activation r sends its response and ends
Respond(r, status, body) ==
    /\ req' = [req EXCEPT ![r] = Idle]
    /\ last' = [kind |-> req[r].kind, pc |-> req[r].pc, status |-> status,
                body |-> body, pre |-> req[r].pre]
    /\ created' = IF status = 201 THEN Append(created, body.id) ELSE created

\* handler entered, its synchronous part passed: it awaits readBooks()
Await(r, kind, id, bookId, title, author, available) ==
    /\ req' = [req EXCEPT ![r] =
                  [Idle EXCEPT !.pc = "read", !.kind = kind, !.id = id,
                               !.bookId = bookId, !.title = title,
                               !.author = author, !.available = available,
                               !.pre = Collection(file)]]
    /\ UNCHANGED <<last, created>>

\* handler entered and left in its synchronous part with an error response
Reject(r, kind, status, msg) ==
    /\ req' = req
    /\ last' = [kind |-> kind, pc |-> "idle", status |-> status,
                body |-> ErrorBody(msg), pre |-> Collection(file)]
    /\ UNCHANGED created

GetBooks(r) ==
    /\ CanStart(r)
    /\ issued' = issued + 1
    /\ Await(r, "list", NoId, NaN, Undefined, Undefined, Undefined)
    /\ UNCHANGED <<file, disk>>

GetAvailable(r) ==
    /\ CanStart(r)
    /\ issued' = issued + 1
    /\ Await(r, "available", NoId, NaN, Undefined, Undefined, Undefined)
    /\ UNCHANGED <<file, disk>>

PostBook(r) ==
    /\ CanStart(r)
    /\ issued' = issued + 1
    /\ \E title \in TitleValues, author \in AuthorValues,
          available \in AvailableValues :
          IF InvalidBody(title, author, available)
          THEN Reject(r, "post", 400,
                      "Title, author, and available (boolean) are required")
          ELSE Await(r, "post", NoId, NaN, title, author, available)
    /\ UNCHANGED <<file, disk>>

PutBook(r) ==
    /\ CanStart(r)
    /\ issued' = issued + 1
    /\ \E id \in PathIds, body \in PutBodies :
          LET bookId == ParseInt(id)
              title == body.title
              author == body.author
              available == body.available
          IN  IF IsNaN(bookId)
              THEN Reject(r, "put", 400, "Invalid book ID")
              ELSE Await(r, "put", id, bookId, title, author, available)
    /\ UNCHANGED <<file, disk>>

DeleteBook(r) ==
    /\ CanStart(r)
    /\ issued' = issued + 1
    /\ \E id \in PathIds :
          LET bookId == ParseInt(id) IN
          IF IsNaN(bookId)
          THEN Reject(r, "delete", 400, "Invalid book ID")
          ELSE Await(r, "delete", id, bookId, Undefined, Undefined, Undefined)
    /\ UNCHANGED <<file, disk>>

\* the code of a handler from the return of readBooks() with `books` to its
\* response or to its await of writeBooks(books)
Loaded(r, books) ==
    LET q == req[r]
        idx == FindIndex(books, q.bookId.n)
    IN  CASE q.kind = "list" -> Respond(r, 200, books)
          [] q.kind = "available" -> Respond(r, 200, FilterAvailable(books))
          [] q.kind = "post" ->
                LET newBook == NewBook(NewId(books), q.title, q.author,
                                       q.available)
                IN  /\ req' = [req EXCEPT ![r] =
                                  [q EXCEPT !.pc = "write", !.loaded = books,
                                            !.books = Push(books, newBook),
                                            !.book = newBook]]
                    /\ UNCHANGED <<last, created>>
          [] q.kind = "put" ->
                IF idx = 0
                THEN Respond(r, 404, ErrorBody("Book not found"))
                ELSE /\ req' = [req EXCEPT ![r] =
                                   [q EXCEPT !.pc = "write", !.loaded = books,
                                             !.bookIndex = idx,
                                             !.books =
                                                [books EXCEPT ![idx] =
                                                    UpdateBook(@, q.title,
                                                        q.author, q.available)]]]
                     /\ UNCHANGED <<last, created>>
          [] q.kind = "delete" ->
                IF idx = 0
                THEN Respond(r, 404, ErrorBody("Book not found"))
                ELSE /\ req' = [req EXCEPT ![r] =
                                   [q EXCEPT !.pc = "write", !.loaded = books,
                                             !.bookIndex = idx,
                                             !.book = books[idx],
                                             !.books = Splice(books, idx)]]
                     /\ UNCHANGED <<last, created>>

\* the catch block of handler r
FailRetry(r) ==
    /\ req' = [req EXCEPT ![r].pc = "read"]
    /\ UNCHANGED <<last, created>>

Fail(r) == Respond(r, 500, ErrorBody(FailureMessage(req[r].kind)))

\* readBooks(): fs.readFile settles
ReadFileTruncating(r) ==
    /\ req[r].pc = "read"
    /\ IF disk = "down"
       THEN Fail(r) /\ UNCHANGED file
       ELSE IF file = Absent
            THEN /\ req' = [req EXCEPT ![r].pc = "create"]
                 /\ UNCHANGED <<file, last, created>>
            ELSE file' = Stored(<<>>) /\ Loaded(r, file.books)
    /\ UNCHANGED <<disk, issued>>

ReadFile(r) ==
    /\ req[r].pc = "read"
    /\ IF disk = "down"
       THEN Fail(r)
       ELSE IF file = Absent
            THEN /\ req' = [req EXCEPT ![r].pc = "create"]
                 /\ UNCHANGED <<last, created>>
            ELSE Loaded(r, file.books)
    /\ UNCHANGED <<file, disk, issued>>

\* readBooks() after ENOENT: fs.writeFile(BOOKS_FILE, '[]') settles
CreateFileRethrows(r) ==
    /\ req[r].pc = "create"
    /\ Fail(r)
    /\ UNCHANGED <<file, disk, issued>>

CreateFile(r) ==
    /\ req[r].pc = "create"
    /\ IF disk = "down"
       THEN Fail(r) /\ UNCHANGED file
       ELSE file' = Stored(<<>>) /\ Loaded(r, <<>>)
    /\ UNCHANGED <<disk, issued>>

\* the response of a handler after its writeBooks(books)
Success(r) ==
    LET q == req[r]
    IN  CASE q.kind = "post" -> Respond(r, 201, q.book)
          [] q.kind = "put" -> Respond(r, 200, q.books[q.bookIndex])
          [] q.kind = "delete" ->
                Respond(r, 200, [message |-> "Book deleted successfully",
                                 book |-> q.book])

\* writeBooks(books): fs.writeFile settles
WriteFileIfUnchanged(r) ==
    /\ req[r].pc = "write"
    /\ IF disk = "down" \/ file.books # req[r].loaded
       THEN Fail(r) /\ UNCHANGED file
       ELSE file' = Stored(req[r].books) /\ Success(r)
    /\ UNCHANGED <<disk, issued>>

WriteFile(r) ==
    /\ req[r].pc = "write"
    /\ IF disk = "down"
       THEN Fail(r) /\ UNCHANGED file
       ELSE file' = Stored(req[r].books) /\ Success(r)
    /\ UNCHANGED <<disk, issued>>

\* the environment: the storage breaks, or works again
DiskChange ==
    /\ disk' = IF disk = "ok" THEN "down" ELSE "ok"
    /\ UNCHANGED <<file, req, issued, last, created>>

Quiet == \A r \in Slots : req[r].pc = "idle"

Step(r) == ReadFile(r) \/ CreateFile(r) \/ WriteFile(r)

Receive(r) ==
    GetBooks(r) \/ GetAvailable(r) \/ PostBook(r) \/ PutBook(r) \/ DeleteBook(r)

\* requests are served concurrently
Next ==
    \/ \E r \in Slots : issued < MaxRequests /\ Receive(r)
    \/ \E r \in Slots : Step(r)
    \/ DiskChange

Spec == Init /\ [][Next]_vars

\* requests are issued one at a time: each after the response to the one before
SeqNext ==
    \/ \E r \in Slots : Quiet /\ issued < MaxSeqRequests /\ Receive(r)
    \/ \E r \in Slots : Step(r)
    \/ DiskChange

SeqSpec == Init /\ [][SeqNext]_vars

\* requests are served concurrently, and every file operation a handler
\* awaits eventually settles (it completes or it fails)
LiveNext ==
    \/ \E r \in Slots : issued < MaxLiveRequests /\ Receive(r)
    \/ \E r \in Slots : Step(r)
    \/ DiskChange

LiveSpec == Init /\ [][LiveNext]_vars /\ \A r \in Slots : WF_vars(Step(r))

----------------------------------------------------------------------------
(* Properties *)

\* the handler activation r sends its response in this step: last' is it
Responds(r) == req[r].pc # "idle" /\ req'[r].pc = "idle"

\* the load of handler r returns a collection in this step: file'.books
Loads(r) ==
    /\ req[r].pc \in {"read", "create"}
    /\ req'[r] # req[r]
    /\ req'[r].pc # "create"
    /\ disk = "ok"

HasId(books, n) == \E i \in 1..Len(books) : books[i].id = n

\* C1: with the requests executed one at a time, a create that responds 201
\* was given the id 1 if the collection it loaded is empty, and otherwise
\* the greatest id of the loaded collection plus 1.
C1_CreateAssignsMaxPlusOne ==
    [][\A r \in Slots :
          (Responds(r) /\ req[r].kind = "post" /\ last'.status = 201) =>
              LET L == req[r].loaded
                  n == last'.body.id
              IN  IF L = <<>> THEN n = 1
                  ELSE /\ \E i \in 1..Len(L) : n = L[i].id + 1
                       /\ \A i \in 1..Len(L) : L[i].id < n]_vars

\* a create answered with the id 3 after loading a collection of one record
C1_Witness ==
    /\ last.kind = "post" /\ last.status = 201
    /\ Len(last.pre) = 1
    /\ last.body.id = 3

\* C2: in every reachable state, under every interleaving of the requests,
\* no two records of the store file have the same id.
C2_UniqueIds ==
    \A i, j \in 1..Len(file.books) :
        i # j => file.books[i].id # file.books[j].id

\* two creates raced (three ids handed out) and the store holds two records
C2_Witness ==
    /\ Len(file.books) = 2
    /\ Len(created) = 3
    /\ created[2] = created[3]

\* C3: with the requests executed one at a time, every create that responds
\* 201 is given an id strictly greater than the id of every earlier one.
C3_AssignedIdsIncrease ==
    \A i, j \in 1..Len(created) : i < j => created[i] < created[j]

\* C4: with the requests executed one at a time, a create that responds 201
\* returns the submitted title, author and available, and a GET /books that
\* follows it with no request in between returns the collection of before the
\* create, in its order, followed by exactly the record of the 201 response.
C4_CreateThenList ==
    [][\A r \in Slots :
          /\ (Responds(r) /\ req[r].kind = "post" /\ last'.status = 201) =>
                /\ last'.body.title = req[r].title
                /\ last'.body.author = req[r].author
                /\ last'.body.available = req[r].available
          /\ (/\ Responds(r) /\ req[r].kind = "list" /\ last'.status = 200
              /\ last.kind = "post" /\ last.status = 201) =>
                /\ Len(last'.body) = Len(last.pre) + 1
                /\ \A i \in 1..Len(last.pre) : last'.body[i] = last.pre[i]
                /\ last'.body[Len(last'.body)] = last.body]_vars

\* a create on a non-empty collection has answered 201, the store holds the
\* collection followed by the new record, and the GET /books issued next is
\* about to read it
C4_Witness ==
    /\ last.kind = "post" /\ last.status = 201
    /\ Len(last.pre) >= 1
    /\ Len(file.books) = Len(last.pre) + 1
    /\ disk = "ok"
    /\ \E r \in Slots : req[r].kind = "list" /\ req[r].pc = "read"

\* the indices of the records of books whose available is the boolean true
TrueAt(books) == {i \in 1..Len(books) : books[i].available = "b:true"}

\* C5: GET /books/available responds 200 with exactly the records of the
\* stored collection whose available is the boolean true, in the order of the
\* store, and with no record whose available is anything else.
C5_AvailableFilter ==
    [][\A r \in Slots :
          (Responds(r) /\ req[r].kind = "available" /\ last'.status = 200) =>
              LET S == file'.books
                  B == last'.body
              IN  /\ Len(B) = Cardinality(TrueAt(S))
                  /\ \A k \in 1..Len(B) :
                        \E i \in TrueAt(S) :
                            /\ Cardinality({j \in TrueAt(S) : j <= i}) = k
                            /\ B[k] = S[i]]_vars

\* GET /books/available has answered with some records and left out a record
\* whose available is the string "yes"
C5_Witness ==
    /\ last.kind = "available" /\ last.status = 200
    /\ Len(last.body) >= 1
    /\ file.books = last.pre
    /\ \E i \in 1..Len(file.books) : file.books[i].available = "s:yes"

\* C6: an update that responds 200 overwrites on the matched record the fields
\* among title, author, available that are present in the body, keeps the
\* previous value of each absent field and the id, and responds with the
\* record as stored.
C6_UpdateSuppliedFields ==
    [][\A r \in Slots :
          (Responds(r) /\ req[r].kind = "put" /\ last'.status = 200) =>
              LET q == req[r]
                  old == q.loaded[q.bookIndex]
                  b == last'.body
              IN  /\ old.id = q.bookId.n
                  /\ b.id = old.id
                  /\ b.title = IF q.title = Undefined THEN old.title
                               ELSE q.title
                  /\ b.author = IF q.author = Undefined THEN old.author
                                ELSE q.author
                  /\ b.available = IF q.available = Undefined
                                   THEN old.available ELSE q.available
                  /\ file'.books[q.bookIndex] = b]_vars

\* an update whose body held only available: title and author are as created
C6_Witness ==
    /\ last.kind = "put" /\ last.status = 200
    /\ last.body = [id |-> 1, title |-> "s:Dune", author |-> "s:Herbert",
                    available |-> "s:yes"]

\* C7: with the requests executed one at a time, a DELETE whose integer id
\* matches no record of the loaded collection responds 404 without a save,
\* the collection of the store is the one of before the request, and a GET
\* /books that follows returns that collection.
C7_DeleteNotFound ==
    [][\A r \in Slots :
          /\ (/\ Loads(r) /\ req[r].kind = "delete"
              /\ ~HasId(file'.books, req[r].bookId.n)) =>
                /\ Responds(r)
                /\ last'.status = 404
                /\ last'.body = ErrorBody("Book not found")
                /\ file'.books = req[r].pre
          /\ (/\ Responds(r) /\ req[r].kind = "list" /\ last'.status = 200
              /\ last.kind = "delete" /\ last.status = 404) =>
                last'.body = last.pre]_vars

\* a DELETE of an id that is not in a non-empty store has answered 404
C7_Witness ==
    /\ last.kind = "delete" /\ last.status = 404
    /\ last.pc = "read"
    /\ Len(last.pre) >= 1
    /\ file.books = last.pre

\* the request of handler activation q passes the validation of its handler:
\* a POST has a truthy title, a truthy author and a boolean available, a PUT
\* or DELETE has a path id that starts with a digit
PassesValidation(q) ==
    /\ q.kind = "post" =>
          /\ q.title \notin {Undefined, "s:"}
          /\ q.author \notin {Undefined, "s:"}
          /\ q.available \in {"b:true", "b:false"}
    /\ q.kind \in {"put", "delete"} =>
          /\ q.id # <<>>
          /\ Head(q.id) \in DigitChars

\* C8: a request that fails validation responds 400 and never reaches
\* persistence.  Every request received either responds 400 at once, the
\* store file left as it is (not created when absent) and no load or save
\* begun, or passes validation; so every request that loads or saves has
\* passed validation.
C8_InvalidNeverPersists ==
    [][/\ issued' # issued =>
            \/ \E r \in Slots :
                  /\ req[r].pc = "idle" /\ req'[r].pc = "read"
                  /\ PassesValidation(req'[r])
                  /\ file' = file
            \/ /\ req' = req
               /\ last'.status = 400
               /\ last'.kind \in {"post", "put", "delete"}
               /\ file' = file
       /\ \A r \in Slots : req'[r].pc # "idle" => PassesValidation(req'[r])
      ]_vars

\* a POST was rejected with 400 while the store file was absent, and the
\* file is still absent
C8_Witness ==
    /\ last.kind = "post" /\ last.status = 400
    /\ last.pc = "idle"
    /\ ~file.exists
    /\ issued >= 1

\* C9: with the requests executed one at a time, a delete that responds 200
\* removes from the store the record with the id and no other, keeps the other
\* records in their order, responds with the message and the record as it was
\* stored, and a GET /books that follows has no record with that id.
C9_DeleteRemovesOne ==
    [][\A r \in Slots :
          /\ (Responds(r) /\ req[r].kind = "delete" /\ last'.status = 200) =>
                LET L == req[r].pre
                    F == file'.books
                    b == last'.body
                IN  /\ b.message = "Book deleted successfully"
                    /\ b.book.id = req[r].bookId.n
                    /\ Len(F) = Len(L) - 1
                    /\ \E i \in 1..Len(L) :
                          /\ L[i] = b.book
                          /\ \A k \in 1..(i - 1) : F[k] = L[k]
                          /\ \A k \in i..Len(F) : F[k] = L[k + 1]
                    /\ ~HasId(F, b.book.id)
          /\ (/\ Responds(r) /\ req[r].kind = "list" /\ last'.status = 200
              /\ last.kind = "delete" /\ last.status = 200) =>
                /\ ~HasId(last'.body, last.body.book.id)
                /\ Len(last'.body) = Len(last.pre) - 1]_vars

\* the first of several records was deleted and the others are in the store
C9_Witness ==
    /\ last.kind = "delete" /\ last.status = 200
    /\ Len(last.pre) >= 2
    /\ last.body.book = last.pre[1]
    /\ file.books = Tail(last.pre)

C11_LastWriteWins ==
    [][\A r \in Slots :
          (req[r].pc = "write" /\ req'[r] # req[r] /\ disk = "ok") =>
              /\ file' = Stored(req[r].books)
              /\ Responds(r)
              /\ last'.status = IF req[r].kind = "post" THEN 201 ELSE 200]_vars

\* two creates were the only requests, both have responded 201 (with the same
\* id, each having loaded before the other saved), and the store holds one
\* record: the write of the request that saved first is lost
C11_Witness ==
    /\ issued = 2
    /\ Quiet
    /\ Len(created) = 2
    /\ Len(file.books) = 1

\* C12: with the requests executed one at a time, a GET /books (or GET
\* /books/available) that reads while the storage works responds 200 and
\* leaves the collection of the store as it was; two of them in a row, with
\* no other request in between, respond with the same body.
C12_ReadsIdempotent ==
    [][\A r \in Slots :
          (Responds(r) /\ req[r].kind \in {"list", "available"}) =>
              /\ file'.books = file.books
              /\ file'.books = req[r].pre
              /\ disk = "ok" => last'.status = 200
              /\ (/\ last.kind = req[r].kind
                  /\ last.status = 200 /\ last'.status = 200) =>
                    /\ last'.body = last.body
                    /\ last'.pre = last.pre]_vars

\* a GET /books on a store of two records has responded 200 and the same
\* request, issued next, is about to read the store
C12_Witness ==
    /\ last.kind = "list" /\ last.status = 200
    /\ Len(last.body) = 2
    /\ file.books = last.body
    /\ \E r \in Slots : req[r].kind = "list" /\ req[r].pc = "read"

\* C13: an absent store file is no error.  While the storage works, a read
\* that finds the file absent goes on to create it, and the creation leaves
\* the file existing with the empty collection and hands the empty collection
\* to the handler: GET /books responds 200 with [], a create goes on to save
\* its record under the id 1 and responds 201 with it, the file existing.
C13_AbsentStoreCreated ==
    [][\A r \in Slots :
          /\ (/\ req[r].pc = "read" /\ req'[r] # req[r]
              /\ disk = "ok" /\ ~file.exists) =>
                /\ req'[r].pc = "create"
                /\ file' = file
          /\ (req[r].pc = "create" /\ req'[r] # req[r] /\ disk = "ok") =>
                /\ file' = Stored(<<>>)
                /\ req[r].kind = "list" =>
                      /\ Responds(r)
                      /\ last'.status = 200
                      /\ last'.body = <<>>
                /\ req[r].kind = "post" =>
                      /\ req'[r].pc = "write"
                      /\ req'[r].loaded = <<>>
                      /\ Len(req'[r].books) = 1
                      /\ req'[r].books[1].id = 1
          /\ (/\ Responds(r) /\ req[r].kind = "post" /\ last'.status = 201
              /\ req[r].loaded = <<>>) =>
                /\ last'.body.id = 1
                /\ file'.exists]_vars

\* GET /books found the file absent, created it and responded 200 with []
C13_Witness ==
    /\ last.kind = "list" /\ last.status = 200
    /\ last.pc = "create"
    /\ last.body = <<>>
    /\ file = Stored(<<>>)

\* v is a non-empty string, among the values of the model
NonEmptyString(v) == v \notin ({Undefined, "s:", "n:9"} \cup Booleans)

\* C14: starting from an empty or absent store, every record of the store has
\* a positive integer id, a non-empty string title, a non-empty string author
\* and a boolean available.
C14_RecordsWellFormed ==
    \A i \in 1..Len(file.books) :
        LET b == file.books[i]
        IN  /\ b.id \in Nat /\ b.id > 0
            /\ NonEmptyString(b.title)
            /\ NonEmptyString(b.author)
            /\ b.available \in Booleans

\* C15: a PUT on an id of the loaded collection is not rejected for the
\* values of its body, and when its save settles while the storage works it
\* responds 200 and the stored record holds the falsy values of the body: the
\* empty title, the available false.
C15_FalsyValuesApplied ==
    [][\A r \in Slots :
          /\ (/\ Loads(r) /\ req[r].kind = "put"
              /\ HasId(file'.books, req[r].bookId.n)) =>
                req'[r].pc = "write"
          /\ (/\ req[r].kind = "put" /\ req[r].pc = "write"
              /\ req'[r] # req[r] /\ disk = "ok") =>
                LET q == req[r]
                    b == file'.books[q.bookIndex]
                IN  /\ Responds(r)
                    /\ last'.status = 200
                    /\ b.id = q.bookId.n
                    /\ q.title = "s:" => b.title = "s:"
                    /\ q.available = "b:false" => b.available = "b:false"
                    /\ last'.body = b]_vars

\* a PUT with the empty title and the available false has responded 200 and
\* the store holds both values
C15_Witness ==
    /\ last.kind = "put" /\ last.status = 200
    /\ last.body.title = "s:"
    /\ last.body.available = "b:false"
    /\ Len(last.pre) >= 1
    /\ last.pre[1].available = "b:true"
    /\ file.books[1] = last.body

\* C16: with the requests executed one at a time, after a PUT, whatever its
\* body and its response, the store holds the ids it held when the request
\* arrived, in the same order, and every record but the one of the path id is
\* as it was.
C16_UpdateKeepsRecords ==
    [][/\ \A r \in Slots :
            (Responds(r) /\ req[r].kind = "put") =>
                LET P == req[r].pre
                    F == file'.books
                IN  /\ Ids(F) = Ids(P)
                    /\ \A i \in 1..Len(P) :
                          P[i].id # req[r].bookId.n => F[i] = P[i]
       /\ (issued' # issued /\ req' = req /\ last'.kind = "put") =>
             file' = file]_vars

\* a PUT has changed the second of two records, and the store holds the same
\* ids and the same first record
C16_Witness ==
    /\ last.kind = "put" /\ last.status = 200
    /\ Len(last.pre) = 2
    /\ last.body.id = 2
    /\ last.body # last.pre[2]
    /\ Ids(file.books) = <<1, 2>>
    /\ file.books[1] = last.pre[1]
    /\ file.books[2] = last.body

\* C17: under every interleaving, a step of a list request (GET /books or
\* GET /books/available) leaves the store file as it is, or creates it as the
\* empty collection when it is absent.
C17_ListNeverReplaces ==
    [][\A r \in Slots :
          (req[r].kind \in {"list", "available"} /\ req'[r] # req[r]) =>
              \/ file' = file
              \/ ~file.exists /\ file' = Stored(<<>>)]_vars

PairwiseDistinct(s) == \A i, j \in 1..Len(s) : i # j => s[i] # s[j]

\* C18: under every interleaving of concurrent creates with no delete in
\* between (here: while every request received is a create that has responded
\* 201), no two creates that respond 201 return the same id.
C18_CreatesReturnDistinctIds ==
    Len(created) = issued => PairwiseDistinct(created)

\* C18, amended: under every interleaving, a create that responds 201 returns
\* an id different from the id returned by every earlier create whose record
\* is in the collection it loaded.
C18_DistinctFromLoaded ==
    [][\A r \in Slots :
          (Responds(r) /\ req[r].kind = "post" /\ last'.status = 201) =>
              \A i \in 1..Len(created) :
                  HasId(req[r].loaded, created[i]) =>
                      last'.body.id # created[i]]_vars

\* two creates raced and returned the id 1 both; a third create loaded the
\* record that survived and returned the id 2
C18_Witness ==
    /\ created = <<1, 1, 2>>
    /\ Ids(file.books) = <<1, 2>>
    /\ last.kind = "post" /\ last.status = 201

\* the statuses of the responses of each endpoint
Statuses(kind) ==
    CASE kind \in {"list", "available"} -> {200, 500}
      [] kind = "post" -> {201, 400, 500}
      [] kind \in {"put", "delete"} -> {200, 400, 404, 500}

\* C19: provided each file operation eventually completes or fails, every
\* request eventually receives its response and its handler ends with it (one
\* response); the status is one of those of its endpoint; and a handler that
\* responds 400 or 404 has not saved and does not save.
C19_EveryRequestAnswered ==
    /\ \A r \in Slots : (req[r].pc # "idle") ~> (req[r].pc = "idle")
    /\ [](last.kind # "none" => last.status \in Statuses(last.kind))
    /\ [][/\ \A r \in Slots :
                Responds(r) =>
                    /\ req'[r] = Idle
                    /\ last'.kind = req[r].kind
                    /\ last'.status \in {400, 404} => req[r].pc # "write"
          /\ (issued' # issued /\ req' = req) =>
                (last'.status = 400 /\ file' = file)]_vars

\* all the requests have been answered, the last one a PUT with 404
C19_Witness ==
    /\ Quiet
    /\ issued = MaxLiveRequests
    /\ last.kind = "put" /\ last.status = 404
    /\ Len(last.pre) >= 1

====
